---- MODULE Spec2Model ----
(***************************************************************************)
(* A model of the HexChat language-translator addon (src/src/lib.rs).      *)
(*                                                                         *)
(* Strings the code only passes around (language codes, error messages,   *)
(* network and channel names) are TLA+ strings.  Strings the code looks   *)
(* into (the text of a message, split by the regex and tested with        *)
(* ends_with) are sequences of one-character strings.  A string built by  *)
(* format!/join is the sequence of its pieces.                            *)
(***************************************************************************)
EXTENDS Integers, Sequences, FiniteSets, Bags

VARIABLES
    chan_map,   \* the ChanMap: (network, channel) -> (source, target), or Nothing
    jobs,       \* the bag of worker threads spawned, one record each
    last        \* what the last handler / worker step / callback did

vars == <<chan_map, jobs, last>>

\* The None of an Option<String>, and of an Option of anything else;
\* Some(x) of the latter.
None    == "None"
Nothing == <<>>
Some(x) == <<x>>

\* No context: where a call is made that is not made on a context, and
\* where a thread runs that has none.
NoCtx == <<None, None>>

\* What the last step was and did: the handler or thread that ran, the
\* context and the word it was given, the calls it made on the host or
\* the server, what it returned (a handler its Eat, a worker the Result of
\* google_translate_free), and the worker it spawned.
Step(op, ctx, word, out, ret, spawn) ==
    [op |-> op, ctx |-> ctx, word |-> word, out |-> out, ret |-> ret,
     spawn |-> spawn]

NoStep == Step("init", NoCtx, <<>>, <<>>, "", Nothing)

(***************************************************************************)
(* Bounds of the model.                                                    *)
(***************************************************************************)
MaxLen  == 5    \* longest message text explored by the pipeline specification
MaxJobs == 1    \* messages the handlers dispatch in one run of the plugin

(***************************************************************************)
(* Text.                                                                   *)
(***************************************************************************)
NL == "\n"

\* The characters of message texts: a letter, a sentence terminator, a
\* space and a line feed.
Alphabet == {"a", ".", " ", NL}

\* The regex class [.?!;|].
IsPunct(c) == c \in {".", "?", "!", ";", "|"}

\* The regex class \s.
IsSpace(c) == c \in {" ", NL, "\t", "\r"}

\* The regex `.` : any character except a line feed.
DotMatches(c) == c # NL

RECURSIVE Flatten(_)
Flatten(ss) == IF ss = <<>> THEN <<>> ELSE Head(ss) \o Flatten(Tail(ss))

\* Greedy [.?!;|]+ : length of the run of terminators starting at index i.
RECURSIVE PunctRun(_, _)
PunctRun(text, i) ==
    IF i > Len(text) \/ ~IsPunct(text[i]) THEN 0 ELSE 1 + PunctRun(text, i + 1)

\* Greedy \s+ : length of the run of whitespace starting at index i.
RECURSIVE SpaceRun(_, _)
SpaceRun(text, i) ==
    IF i > Len(text) \/ ~IsSpace(text[i]) THEN 0 ELSE 1 + SpaceRun(text, i + 1)

(***************************************************************************)
(* The Segmenter: Regex .+?(?:[.?!;|]+\s+|$) iterated by find_iter.        *)
(***************************************************************************)

\* The match of the expression that starts at index s, with the lazy .+?
\* trying k characters: the index of the match's last character, or 0 when
\* there is no match starting at s.
RECURSIVE MatchLazy(_, _, _)
MatchLazy(text, s, k) ==
    LET e == s + k - 1                   \* last character taken by .+?
        p == PunctRun(text, e + 1)
        w == SpaceRun(text, e + 1 + p)
    IN  IF e > Len(text) \/ ~DotMatches(text[e]) THEN 0
        ELSE IF p >= 1 /\ w >= 1 THEN e + p + w     \* [.?!;|]+\s+
        ELSE IF e = Len(text) THEN e                \* $
        ELSE MatchLazy(text, s, k + 1)

MatchAt(text, s) == MatchLazy(text, s, 1)

\* The successive non-overlapping matches from index s on, leftmost first.
RECURSIVE FindFrom(_, _)
FindFrom(text, s) ==
    IF s > Len(text) THEN <<>>
    ELSE LET e == MatchAt(text, s)
         IN  IF e = 0 THEN FindFrom(text, s + 1)
             ELSE <<SubSeq(text, s, e)>> \o FindFrom(text, e + 1)

\* expr.find_iter(text), each match as its m.as_str().
find_iter(text) == FindFrom(text, 1)

(***************************************************************************)
(* The translation server, as translate_single sees it.                    *)
(***************************************************************************)

\* What one call of translate_single meets: whether urlparse::quote
\* succeeds, whether agent.get(url).call() returns Ok with a response, the
\* status and status text the server answered with (0 and "" when it did
\* not answer), whether into_string() succeeds and what the body is.
\* call() returns Err when no answer arrives; the ureq 2 agent the code
\* builds also returns Err (Error::Status) for an answer of status 400 or
\* more, and hands only the others back as Ok.
Response(quoted, called, status, status_text, readable, body) ==
    [quoted |-> quoted, called |-> called, status |-> status,
     status_text |-> status_text, readable |-> readable, body |-> body]

RespOk        == Response(TRUE,  TRUE,  200, "OK", TRUE,  "json_text")
RespNoText    == Response(TRUE,  TRUE,  200, "OK", TRUE,  "json_no_text")
RespNotJson   == Response(TRUE,  TRUE,  200, "OK", TRUE,  "not_json")
RespUnread    == Response(TRUE,  TRUE,  200, "OK", FALSE, "not_json")
RespNoCall    == Response(TRUE,  FALSE, 0,   "",   FALSE, "not_json")
RespNoQuote   == Response(FALSE, FALSE, 0,   "",   FALSE, "not_json")
RespForbidden == Response(TRUE,  TRUE,  403, "Forbidden", TRUE, "not_json")
RespNotFound  == Response(TRUE,  TRUE,  404, "Not Found", TRUE, "not_json")
RespServerErr == Response(TRUE,  TRUE,  500, "Internal Server Error", TRUE,
                          "not_json")
RespForbiddenErr == Response(TRUE, FALSE, 403, "Forbidden", TRUE, "not_json")

Responses == {RespOk, RespNoText, RespNotJson, RespUnread, RespNoCall,
              RespNoQuote, RespForbidden, RespNotFound, RespServerErr,
              RespForbiddenErr}

\* The text without its trailing whitespace.
RECURSIVE TrimEnd(_)
TrimEnd(text) ==
    IF text # <<>> /\ IsSpace(text[Len(text)])
    THEN TrimEnd(SubSeq(text, 1, Len(text) - 1)) ELSE text

\* The string at [0][0][0] of a well-formed body: the server turns the
\* letter a into A and trims the whitespace that ends the sentence.
ServerText(sentence) ==
    LET t == TrimEnd(sentence)
    IN  [i \in 1..Len(t) |-> IF t[i] = "a" THEN "A" ELSE t[i]]

(***************************************************************************)
(* The Segment Translator.                                                 *)
(***************************************************************************)

\* The static ERRORS table of translate_single, and the OverLimit message.
ERRORS == <<"URL message escaping failed.",
            "Failed to get response from translation server.",
            "Failed to get text for HTTP response body.",
            "Received invalid response format from server.">>

OVER_LIMIT_MSG == "Server translation limit reached."

StaticError(s)  == [variant |-> "StaticError",  msg |-> s]
DynamicError(s) == [variant |-> "DynamicError", msg |-> s]
OverLimit(s)    == [variant |-> "OverLimit",    msg |-> s]

Ok(v)  == [tag |-> "Ok",  val |-> v]
Err(e) == [tag |-> "Err", err |-> e]

\* The success branch: the translated text, with a space pushed back when
\* the sentence ends with one.
TranslatedText(sentence) ==
    LET trans == ServerText(sentence)
    IN  IF sentence # <<>> /\ sentence[Len(sentence)] = " "
        THEN Append(trans, " ") ELSE trans

\* A branch that takes 403 for one more bad status.
StatusErrorNoLimit(rsp) == DynamicError(rsp.status_text)

\* The branch taken on a response whose status text is not "OK".
StatusError(rsp) ==
    IF rsp.status = 403 THEN OverLimit(OVER_LIMIT_MSG)
    ELSE DynamicError(rsp.status_text)

\* A translate_single that takes a malformed body for an empty translation.
translate_singleLenient(sentence, rsp) ==
    IF ~rsp.quoted THEN Err(StaticError(ERRORS[1]))
    ELSE IF ~rsp.called THEN Err(StaticError(ERRORS[2]))
    ELSE IF rsp.status_text = "OK"
         THEN IF ~rsp.readable THEN Err(StaticError(ERRORS[3]))
              ELSE IF rsp.body # "json_text" THEN Ok(<<>>)
              ELSE Ok(TranslatedText(sentence))
    ELSE Err(StatusError(rsp))

\* translate_single(sentence, agent, source, target), the server's answer
\* to its one request being rsp.
translate_single(sentence, rsp) ==
    IF ~rsp.quoted THEN Err(StaticError(ERRORS[1]))
    ELSE IF ~rsp.called THEN Err(StaticError(ERRORS[2]))
    ELSE IF rsp.status_text = "OK"
         THEN IF ~rsp.readable THEN Err(StaticError(ERRORS[3]))
              ELSE IF rsp.body # "json_text" THEN Err(StaticError(ERRORS[4]))
              ELSE Ok(TranslatedText(sentence))
    ELSE Err(StatusError(rsp))

(***************************************************************************)
(* The Pipeline Coordinator.                                               *)
(***************************************************************************)

\* The byte order of the strings that can be error messages (String's Ord).
LexRank(s) ==
    CASE s = ERRORS[2]               -> 1   \* "Failed to get r..."
      [] s = ERRORS[3]               -> 2   \* "Failed to get t..."
      [] s = "Forbidden"             -> 3
      [] s = "Internal Server Error" -> 4
      [] s = "Not Found"             -> 5
      [] s = ERRORS[4]               -> 6   \* "Received ..."
      [] s = OVER_LIMIT_MSG          -> 7   \* "Server ..."
      [] s = ERRORS[1]               -> 8   \* "URL ..."

\* Insert e into the sorted sequence ss.
RECURSIVE SortedInsert(_, _)
SortedInsert(ss, e) ==
    IF ss = <<>> THEN <<e>>
    ELSE IF LexRank(e) <= LexRank(Head(ss)) THEN <<e>> \o ss
    ELSE <<Head(ss)>> \o SortedInsert(Tail(ss), e)

\* A sort that leaves the errors in the order they occurred.
sortNone(ss) == ss

\* errors.sort_unstable()
RECURSIVE sort_unstable(_)
sort_unstable(ss) ==
    IF ss = <<>> THEN <<>>
    ELSE SortedInsert(sort_unstable(Tail(ss)), Head(ss))

\* errors.dedup(): drops each element equal to the one before it.
RECURSIVE dedup(_)
dedup(ss) ==
    IF Len(ss) <= 1 THEN ss
    ELSE IF ss[1] = ss[2] THEN dedup(Tail(ss))
    ELSE <<ss[1]>> \o dedup(Tail(ss))

\* errors.join(sep): the pieces of the joined string.
RECURSIVE join(_, _)
join(ss, sep) ==
    IF ss = <<>> THEN <<>>
    ELSE IF Len(ss) = 1 THEN ss
    ELSE <<Head(ss), sep>> \o join(Tail(ss), sep)

TranslationError(partial_trans, error_msg, over_limit) ==
    [tag |-> "Err", partial_trans |-> partial_trans,
     error_msg |-> error_msg, over_limit |-> over_limit]

\* The locals of google_translate_free before its loop; calls lists the
\* sentences handed to translate_single so far.
GtfStart ==
    [translated |-> <<>>, errors |-> <<>>, over_limit |-> FALSE, calls |-> <<>>]

\* The Ok arm of the match in the loop.
OnTranslated(acc, trans) ==
    [acc EXCEPT !.translated = @ \o trans]

\* An Err arm that takes every failure for the rate limit.
OnFailedAnyLimit(acc, sentence, err) ==
    [acc EXCEPT !.over_limit = TRUE,
                !.errors     = Append(@, err.msg),
                !.translated = @ \o sentence]

\* An Err arm that does not push the sentence back.
OnFailedDropsText(acc, sentence, err) ==
    [acc EXCEPT !.over_limit = IF err.variant = "OverLimit" THEN TRUE ELSE @,
                !.errors     = Append(@, err.msg)]

\* The Err arm of the match in the loop.
OnFailed(acc, sentence, err) ==
    [acc EXCEPT !.over_limit = IF err.variant = "OverLimit" THEN TRUE ELSE @,
                !.errors     = Append(@, err.msg),
                !.translated = @ \o sentence]

\* A finish that tests the errors the wrong way round.
GtfFinishInverted(acc) ==
    IF acc.errors = <<>>
    THEN TranslationError(acc.translated,
                          join(dedup(sort_unstable(acc.errors)), " "),
                          acc.over_limit)
    ELSE Ok(acc.translated)

\* What follows the loop.
GtfFinish(acc) ==
    IF acc.errors # <<>>
    THEN TranslationError(acc.translated,
                          join(dedup(sort_unstable(acc.errors)), " "),
                          acc.over_limit)
    ELSE Ok(acc.translated)

\* A loop that gives up at the first unit that fails.
RECURSIVE GtfLoopStops(_, _, _, _)
GtfLoopStops(units, rsps, i, acc) ==
    IF i > Len(units) THEN acc
    ELSE LET sentence == units[i]
             r    == translate_single(sentence, rsps[i])
             acc1 == [acc EXCEPT !.calls = Append(@, sentence)]
         IN  IF r.tag = "Ok"
             THEN GtfLoopStops(units, rsps, i + 1, OnTranslated(acc1, r.val))
             ELSE OnFailed(acc1, sentence, r.err)

\* The loop over the matches, from the i-th on; the i-th call of
\* translate_single is answered by rsps[i].
RECURSIVE GtfLoop(_, _, _, _)
GtfLoop(units, rsps, i, acc) ==
    IF i > Len(units) THEN acc
    ELSE LET sentence == units[i]
             r   == translate_single(sentence, rsps[i])
             acc1 == [acc EXCEPT !.calls = Append(@, sentence)]
         IN  GtfLoop(units, rsps, i + 1,
                     IF r.tag = "Ok" THEN OnTranslated(acc1, r.val)
                     ELSE OnFailed(acc1, sentence, r.err))

\* google_translate_free(text, source, target), the server answering the
\* i-th request with rsps[i]: the Result, and the sentences requested.
google_translate_free(text, rsps) ==
    LET acc == GtfLoop(find_iter(text), rsps, 1, GtfStart)
    IN  [result |-> GtfFinish(acc), calls |-> acc.calls]

(***************************************************************************)
(* The host: contexts, and the calls the plugin makes on it.               *)
(***************************************************************************)
Networks == {"net"}
Channels == {"#a", "#b"}

\* The keys of the ChanMap.
Keys == Networks \X Channels

\* A context is what get_info("network") and get_info("channel") answer in
\* it; None is the answer of a context that has no such information.
Ctxs == Keys \cup {<<None, "#a">>, <<"net", None>>}

\* hc.get_info(id) in context ctx.
get_info(ctx, id) == IF id = "network" THEN ctx[1] ELSE ctx[2]

IRC_MAGENTA == "\\00313"
IRC_CYAN    == "\\00311"

\* The calls on the host that a step makes, in order, are its output.
HcPrint(ctx, text)            == [call |-> "print", ctx |-> ctx, arg |-> text]
HcCommand(ctx, text)          == [call |-> "command", ctx |-> ctx, arg |-> text]
HcEmitPrint(ctx, event, word) ==
    [call |-> "emit_print", ctx |-> ctx, arg |-> <<event, word>>]

Eat == [None |-> "Eat::None", Hexchat |-> "Eat::Hexchat", All |-> "Eat::All"]

(***************************************************************************)
(* The supported languages.                                                *)
(***************************************************************************)

\* Entries of the SUPPORTED_LANGUAGES table (two of its 103 languages).
SUPPORTED_LANGUAGES == <<<<"English", "en">>, <<"Spanish", "es">>>>

\* str::to_lowercase on the strings that occur as language arguments.
to_lowercase(s) ==
    CASE s = "English" -> "english"
      [] s = "Spanish" -> "spanish"
      [] s = "EN"      -> "en"
      [] OTHER         -> s

\* find_lang(lang): the first entry whose name or code is lang.
RECURSIVE FindLangFrom(_, _)
FindLangFrom(lang, i) ==
    IF i > Len(SUPPORTED_LANGUAGES) THEN Nothing
    ELSE LET lang_info == SUPPORTED_LANGUAGES[i]
         IN  IF lang = to_lowercase(lang_info[1]) \/ lang = lang_info[2]
             THEN lang_info
             ELSE FindLangFrom(lang, i + 1)

find_lang(lang) == FindLangFrom(to_lowercase(lang), 1)

(***************************************************************************)
(* The Context Registry.                                                   *)
(***************************************************************************)
EmptyMap == [k \in Keys |-> Nothing]

\* An insert that stores the pair the wrong way round.
insertSwapped(map, key, value) ==
    [map EXCEPT ![key] = <<value[2], value[1]>>]

\* chan_map.insert(key, value)
insert(map, key, value) == [map EXCEPT ![key] = value]

\* chan_map.remove(key)
remove(map, key) == [map EXCEPT ![key] = Nothing]

\* get_channel_langs(hc, map_udata) in context ctx.
get_channel_langs(ctx, map) ==
    LET network == get_info(ctx, "network")
        channel == get_info(ctx, "channel")
    IN  IF network = None THEN Nothing
        ELSE IF channel = None THEN Nothing
        ELSE map[<<network, channel>>]

ACTIVATION_FAILED   == "Failed to get channel information during activation."
DEACTIVATION_FAILED == "Failed to get channel information during deactivation."

\* An activate that sets the pair of every context.
activateEverywhere(ctx, map, source, dest) ==
    IF get_info(ctx, "network") = None \/ get_info(ctx, "channel") = None
    THEN [map |-> map,
          out |-> <<HcPrint(ctx, <<IRC_MAGENTA, ACTIVATION_FAILED>>)>>]
    ELSE [map |-> [k \in Keys |-> <<source, dest>>], out |-> <<>>]

\* activate(hc, map_udata, source, dest) in context ctx: the map after it
\* and what it printed.
activate(ctx, map, source, dest) ==
    LET network == get_info(ctx, "network")
        channel == get_info(ctx, "channel")
    IN  IF network = None \/ channel = None
        THEN [map |-> map,
              out |-> <<HcPrint(ctx, <<IRC_MAGENTA, ACTIVATION_FAILED>>)>>]
        ELSE [map |-> insert(map, <<network, channel>>, <<source, dest>>),
              out |-> <<>>]

\* A deactivate that clears the whole map.
deactivateAll(ctx, map) ==
    IF get_info(ctx, "network") = None \/ get_info(ctx, "channel") = None
    THEN [map |-> map,
          out |-> <<HcPrint(ctx, <<IRC_MAGENTA, DEACTIVATION_FAILED>>)>>]
    ELSE [map |-> EmptyMap, out |-> <<>>]

\* A deactivate that builds its key the wrong way round.
deactivateSwapped(ctx, map) ==
    LET network == get_info(ctx, "network")
        channel == get_info(ctx, "channel")
    IN  IF network = None \/ channel = None
        THEN [map |-> map,
              out |-> <<HcPrint(ctx, <<IRC_MAGENTA, DEACTIVATION_FAILED>>)>>]
        ELSE [map |-> [k \in Keys |-> IF k = <<channel, network>>
                                      THEN Nothing ELSE map[k]],
              out |-> <<>>]

\* deactivate(hc, map_udata) in context ctx.
deactivate(ctx, map) ==
    LET network == get_info(ctx, "network")
        channel == get_info(ctx, "channel")
    IN  IF network = None \/ channel = None
        THEN [map |-> map,
              out |-> <<HcPrint(ctx, <<IRC_MAGENTA, DEACTIVATION_FAILED>>)>>]
        ELSE [map |-> remove(map, <<network, channel>>),
              out |-> <<>>]

(***************************************************************************)
(* /SETLANG and /OFFLANG.                                                  *)
(***************************************************************************)
SETLANG_HELP == "/SETLANG <src> <tgt> - Sets source and target languages for the channel."
OFFLANG_HELP == "/OFFLANG - Deactivates translation on the channel. This command takes no paramters."
TRANSLATION_ON  == "TRANSLATION IS ON FOR THIS CHANNEL! "
BAD_PARAMETERS  == "BAD LANGUAGE PARAMETERS. Use /LISTLANG to get a list of supported languages. And don't set translation source and target languages the same."
TRANSLATION_OFF == "Translation turned OFF for this channel."

\* A test that lets equal languages through.
ParamsGoodEqual(src_lang_info, tgt_lang_info) ==
    /\ src_lang_info # Nothing
    /\ tgt_lang_info # Nothing

\* The test of on_cmd_setlang on the two table entries it found.
ParamsGood(src_lang_info, tgt_lang_info) ==
    /\ src_lang_info # Nothing
    /\ tgt_lang_info # Nothing
    /\ src_lang_info # tgt_lang_info

\* on_cmd_setlang(hc, word, _, map_udata) in context ctx: the map after
\* it, what it printed and what it returned.
on_cmd_setlang(ctx, word, map) ==
    IF Len(word) = 3
    THEN LET src_lang_info == find_lang(word[2])
             tgt_lang_info == find_lang(word[3])
         IN  IF ParamsGood(src_lang_info, tgt_lang_info)
             THEN LET a == activate(ctx, map, src_lang_info[2],
                                    tgt_lang_info[2])
                  IN  [map |-> a.map,
                       out |-> Append(a.out,
                                 HcPrint(ctx, <<IRC_MAGENTA, TRANSLATION_ON,
                                              src_lang_info[1], " (you) to ",
                                              tgt_lang_info[1], " (them).">>)),
                       eat |-> Eat.All]
             ELSE [map |-> map,
                   out |-> <<HcPrint(ctx, <<IRC_MAGENTA, BAD_PARAMETERS>>)>>,
                   eat |-> Eat.All]
    ELSE [map |-> map,
          out |-> <<HcPrint(ctx, <<"USAGE: ", SETLANG_HELP>>)>>,
          eat |-> Eat.All]

\* on_cmd_offlang(hc, word, _, map_udata) in context ctx.
on_cmd_offlang(ctx, word, map) ==
    IF Len(word) = 1
    THEN LET d == deactivate(ctx, map)
         IN  [map |-> d.map,
              out |-> Append(d.out, HcPrint(ctx, <<IRC_MAGENTA, TRANSLATION_OFF>>)),
              eat |-> Eat.All]
    ELSE [map |-> map,
          out |-> <<HcPrint(ctx, <<"USAGE: ", OFFLANG_HELP>>)>>,
          eat |-> Eat.All]

(***************************************************************************)
(* /LSAY, /LME and the incoming events: the Dispatch Bridge.               *)
(***************************************************************************)

\* The attribute and colour codes hc.strip removes.
IsFormat(c) == c \in {"^B", "^C"}

RECURSIVE StripCodes(_)
StripCodes(text) ==
    IF text = <<>> THEN <<>>
    ELSE IF IsFormat(Head(text)) THEN StripCodes(Tail(text))
    ELSE <<Head(text)>> \o StripCodes(Tail(text))

\* hc.strip(message, StripBoth); the host answers None when stripped is
\* FALSE.
strip(message, stripped) ==
    IF stripped THEN Some(StripCodes(message)) ELSE Nothing

\* The marker appended to the events the plugin emits itself.
SENTINEL == <<"~">>

BASIC_FAILURE == "Translator Error: Basic failure retrieving channel information, or unable to strip original message."
FAILED_CONTEXT == "Failed to get context."

\* What thread::spawn is given: the values moved into the worker's
\* closure, and the worker's locals once the translation has returned.
\* source and target are the arguments of google_translate_free.
Job(kind, label, sender, mode_char, message, strip_msg, source, target, network, channel) ==
    [status |-> "running", kind |-> kind, label |-> label,
     sender |-> sender, mode_char |-> mode_char, message |-> message,
     strip_msg |-> strip_msg, source |-> source, target |-> target,
     network |-> network, channel |-> channel,
     msg |-> <<>>, emsg |-> Nothing, is_over_limit |-> FALSE]

\* A worker whose callback has run: its thread and closures are gone.
DoneJob ==
    [status |-> "done", kind |-> "", label |-> "",
     sender |-> <<>>, mode_char |-> <<>>, message |-> <<>>,
     strip_msg |-> <<>>, source |-> "", target |-> "",
     network |-> "", channel |-> "",
     msg |-> <<>>, emsg |-> Nothing, is_over_limit |-> FALSE]

\* try_on_cmd_lsay(hc, _, word_eol, user_data) in context ctx, user_data
\* holding cmd: what it returns and the worker it spawns.
try_on_cmd_lsay(ctx, word_eol, cmd, map, stripped) ==
    LET chan_langs == get_channel_langs(ctx, map)
    IN  IF chan_langs # Nothing
        THEN LET src_lang  == chan_langs[1]
                 tgt_lang  == chan_langs[2]
                 message   == word_eol[2]
                 strip_msg == strip(message, stripped)
                 network   == get_info(ctx, "network")
                 channel   == get_info(ctx, "channel")
             IN  IF strip_msg = Nothing \/ network = None \/ channel = None
                 THEN [ret |-> Nothing, spawn |-> Nothing]
                 ELSE [ret   |-> Some(Eat.All),
                       spawn |-> Some(Job("cmd", cmd, <<>>, <<>>, message,
                                          strip_msg[1], src_lang, tgt_lang,
                                          network, channel))]
        ELSE [ret |-> Some(Eat.None), spawn |-> Nothing]

\* A wrapper that consumes the command whatever the handler returned.
on_cmd_lsayEatsAll(ctx, word_eol, cmd, map, stripped) ==
    LET t == try_on_cmd_lsay(ctx, word_eol, cmd, map, stripped)
    IN  [eat |-> Eat.All, out |-> <<>>, spawn |-> t.spawn]

\* on_cmd_lsay(hc, word, word_eol, user_data) in context ctx.
on_cmd_lsay(ctx, word_eol, cmd, map, stripped) ==
    LET t == try_on_cmd_lsay(ctx, word_eol, cmd, map, stripped)
    IN  IF t.ret # Nothing
        THEN [eat |-> t.ret[1], out |-> <<>>, spawn |-> t.spawn]
        ELSE [eat |-> Eat.All,
              out |-> <<HcPrint(ctx, <<IRC_MAGENTA, BASIC_FAILURE>>)>>,
              spawn |-> Nothing]

\* A test that forgets the sentinel.
IgnoredEventShort(word) == Len(word) < 2

\* The test that opens try_on_recv_message.
IgnoredEvent(word) ==
    Len(word) < 2 \/ word[Len(word)] = SENTINEL

\* A handler that translates an incoming message the way of an outgoing one.
try_on_recv_messageOutward(ctx, word, event, map, stripped) ==
    IF Len(word) < 2 \/ word[Len(word)] = SENTINEL
    THEN [ret |-> Some(Eat.None), spawn |-> Nothing]
    ELSE
    LET chan_langs == get_channel_langs(ctx, map)
    IN  IF chan_langs # Nothing
        THEN LET strip_msg == strip(word[2], stripped)
                 network   == get_info(ctx, "network")
                 channel   == get_info(ctx, "channel")
             IN  IF strip_msg = Nothing \/ network = None \/ channel = None
                 THEN [ret |-> Nothing, spawn |-> Nothing]
                 ELSE [ret   |-> Some(Eat.Hexchat),
                       spawn |-> Some(Job("event", event, word[1],
                                          IF Len(word) > 2 THEN word[3] ELSE <<>>,
                                          word[2], strip_msg[1],
                                          chan_langs[1], chan_langs[2],
                                          network, channel))]
        ELSE [ret |-> Some(Eat.None), spawn |-> Nothing]

\* try_on_recv_message(hc, word, user_data) in context ctx, user_data
\* holding event.
try_on_recv_message(ctx, word, event, map, stripped) ==
    IF IgnoredEvent(word) THEN [ret |-> Some(Eat.None), spawn |-> Nothing]
    ELSE
    LET chan_langs == get_channel_langs(ctx, map)
    IN  IF chan_langs # Nothing
        THEN LET sender    == word[1]
                 message   == word[2]
                 mode_char == IF Len(word) > 2 THEN word[3] ELSE <<>>
                 src_lang  == chan_langs[1]
                 tgt_lang  == chan_langs[2]
                 strip_msg == strip(message, stripped)
                 network   == get_info(ctx, "network")
                 channel   == get_info(ctx, "channel")
             IN  IF strip_msg = Nothing \/ network = None \/ channel = None
                 THEN [ret |-> Nothing, spawn |-> Nothing]
                 ELSE [ret   |-> Some(Eat.Hexchat),
                       spawn |-> Some(Job("event", event, sender, mode_char,
                                          message, strip_msg[1],
                                          tgt_lang, src_lang,
                                          network, channel))]
        ELSE [ret |-> Some(Eat.None), spawn |-> Nothing]

\* on_recv_message(hc, word, user_data) in context ctx.
on_recv_message(ctx, word, event, map, stripped) ==
    LET t == try_on_recv_message(ctx, word, event, map, stripped)
    IN  IF t.ret # Nothing
        THEN [eat |-> t.ret[1], out |-> <<>>, spawn |-> t.spawn]
        ELSE [eat |-> Eat.Hexchat,
              out |-> <<HcPrint(ctx, <<IRC_MAGENTA, BASIC_FAILURE>>)>>,
              spawn |-> Nothing]

\* The worker's closure up to its call of main_thread: the translation,
\* the server answering the i-th request with rsps[i], and the match on
\* its Result.
WorkerBody(job, rsps) ==
    LET r == google_translate_free(job.strip_msg, rsps).result
    IN  IF r.tag = "Ok"
        THEN [job EXCEPT !.status = "posted", !.msg = r.val]
        ELSE [job EXCEPT !.status = "posted",
                         !.msg  = r.partial_trans,
                         !.emsg = Some(<<IRC_MAGENTA, "Translation Error: ">>
                                       \o r.error_msg),
                         !.is_over_limit = r.over_limit]

\* The print a worker makes (hc_print_th!) when main_thread(..).get()
\* hands it the HexchatError of a failed host call.
HcPrintTh == [call |-> "print_th", ctx |-> NoCtx,
              arg |-> <<IRC_MAGENTA, "HexchatError">>]

\* The word of the event the callback emits.
EmittedWord(job) ==
    IF job.mode_char # <<>>
    THEN <<job.sender, job.msg, job.mode_char, SENTINEL>>
    ELSE <<job.sender, job.msg, SENTINEL>>

\* The first host call of the callback.
Deliver(job, ctx) ==
    IF job.kind = "cmd"
    THEN HcCommand(ctx, <<job.label, " ">> \o job.msg)
    ELSE HcEmitPrint(ctx, job.label, EmittedWord(job))

\* The hooks the host runs inside that first call: the plugin's own
\* on_recv_message on the emitted event (SAY and ME are not hooked).
DeliverHooks(job, ctx, map) ==
    IF job.kind = "cmd" THEN [eat |-> Eat.None, out |-> <<>>, spawn |-> Nothing]
    ELSE on_recv_message(ctx, EmittedWord(job), job.label, map, TRUE)

\* A callback that turns translation off after any failed unit.
CallbackOffAnyError(job, map, found, fail_at) ==
    LET ctx == <<job.network, job.channel>>
        off == on_cmd_offlang(ctx, <<"OFFLANG">>, map)
    IN  IF ~found \/ fail_at # 0
        THEN [map |-> map, out |-> <<HcPrintTh>>, spawn |-> Nothing]
        ELSE IF job.emsg = Nothing
        THEN [map |-> map,
              out |-> <<Deliver(job, ctx), HcPrint(ctx, <<IRC_CYAN>> \o job.message)>>,
              spawn |-> Nothing]
        ELSE [map |-> off.map,
              out |-> <<Deliver(job, ctx), HcPrint(ctx, <<IRC_CYAN>> \o job.message),
                        HcPrint(ctx, job.emsg[1]), HcCommand(ctx, <<"OFFLANG">>)>>
                      \o off.out,
              spawn |-> Nothing]

\* A callback that turns a rate-limited context off even when one of its
\* calls has failed.
CallbackUnchained(job, map, found, fail_at) ==
    LET ctx      == <<job.network, job.channel>>
        deliver  == Deliver(job, ctx)
        original == HcPrint(ctx, <<IRC_CYAN>> \o job.message)
        off      == on_cmd_offlang(ctx, <<"OFFLANG">>, map)
        limited  == job.emsg # Nothing /\ job.is_over_limit
    IN  IF ~found
        THEN [map |-> map, out |-> <<HcPrint(NoCtx, <<FAILED_CONTEXT>>)>>,
              spawn |-> Nothing]
        ELSE IF fail_at # 0
        THEN [map |-> IF limited THEN off.map ELSE map,
              out |-> <<deliver, HcPrintTh>>, spawn |-> Nothing]
        ELSE [map |-> IF limited THEN off.map ELSE map,
              out |-> <<deliver, original>>
                      \o (IF job.emsg # Nothing
                          THEN <<HcPrint(ctx, job.emsg[1])>> ELSE <<>>)
                      \o (IF limited
                          THEN <<HcCommand(ctx, <<"OFFLANG">>)>> \o off.out
                          ELSE <<>>),
              spawn |-> Nothing]

\* The closure given to main_thread, run on the UI thread for job:
\* found says whether hc.find_context finds the destination, and the
\* fail_at-th host call on it returns Err (none when fail_at is 0).
\* The map after it, the host calls made, and what the hooks spawned.
Callback(job, map, found, fail_at) ==
    LET ctx      == <<job.network, job.channel>>
        deliver  == Deliver(job, ctx)
        hooks    == DeliverHooks(job, ctx, map)
        original == HcPrint(ctx, <<IRC_CYAN>> \o job.message)
        diag     == HcPrint(ctx, job.emsg[1])
        offlang  == HcCommand(ctx, <<"OFFLANG">>)
        off      == on_cmd_offlang(ctx, <<"OFFLANG">>, map)
        Res(m, out, spawn) == [map |-> m, out |-> out, spawn |-> spawn]
    IN  IF ~found
        THEN Res(map, <<HcPrint(NoCtx, IF job.kind = "cmd"
                                       THEN <<IRC_MAGENTA, FAILED_CONTEXT>>
                                       ELSE <<FAILED_CONTEXT>>)>>, Nothing)
        ELSE IF fail_at = 1
        THEN Res(map, <<HcPrintTh>>, Nothing)
        ELSE IF fail_at = 2
        THEN Res(map, <<deliver, HcPrintTh>>, hooks.spawn)
        ELSE IF job.emsg = Nothing
        THEN Res(map, <<deliver, original>>, hooks.spawn)
        ELSE IF fail_at = 3
        THEN Res(map, <<deliver, original, HcPrintTh>>, hooks.spawn)
        ELSE IF ~job.is_over_limit
        THEN Res(map, <<deliver, original, diag>>, hooks.spawn)
        ELSE IF fail_at = 4
        THEN Res(map, <<deliver, original, diag, HcPrintTh>>, hooks.spawn)
        ELSE Res(off.map, <<deliver, original, diag, offlang>> \o off.out,
                 hooks.spawn)

(***************************************************************************)
(* The plugin as a state machine.                                          *)
(***************************************************************************)

\* The inputs explored when the whole plugin runs.
SysCtxs      == Keys \cup {<<None, "#a">>}
SetlangWords == {<<"SETLANG", "en", "es">>, <<"SETLANG", "es", "en">>,
                 <<"SETLANG", "en", "en">>}
OfflangWords == {<<"OFFLANG">>}
Cmds         == {"SAY"}
Events       == {"Channel Message"}
Messages     == {<<"^B", "a">>}
Nick         == <<"nick">>
EventWords   == {<<Nick>>}
                \cup {<<Nick, m>> : m \in Messages}
                \cup {<<Nick, m, SENTINEL>> : m \in Messages}

\* The answers of the server explored when the whole plugin runs.
SysResponses == {RespOk, RespForbidden, RespNotFound}

\* The inputs explored when only /SETLANG and /OFFLANG run.
LangArgs        == {"en", "es", "Spanish", "xx"}
AllSetlangWords == {<<"SETLANG">>, <<"SETLANG", "en">>,
                    <<"SETLANG", "en", "es", "en">>}
                   \cup {<<"SETLANG", a, b>> : a, b \in LangArgs}
AllOfflangWords == {<<"OFFLANG">>, <<"OFFLANG", "now">>}

\* All sequences of length n over S.
RECURSIVE SeqsOfLen(_, _)
SeqsOfLen(S, n) ==
    IF n = 0 THEN {<<>>}
    ELSE {Append(q, x) : q \in SeqsOfLen(S, n - 1), x \in S}

\* All texts of at most n characters.
RECURSIVE TextsUpTo(_)
TextsUpTo(n) == IF n = 0 THEN {<<>>} ELSE TextsUpTo(n - 1) \cup SeqsOfLen(Alphabet, n)

\* A message of three sentences.
LongTexts == {<<"a", ".", " ", "a", "?", NL, "a">>}

\* The request translate_single sends for a sentence.
HttpGet(sentence) == [call |-> "get", ctx |-> NoCtx, arg |-> sentence]

\* What the host can answer a callback: whether find_context finds the
\* destination, and which of the calls on it fails (0: none).
HostAnswers == {[found |-> FALSE, fail_at |-> 0]}
               \cup {[found |-> TRUE, fail_at |-> n] : n \in 0..4}

\* thread::spawn: the worker joins the others.
Spawned(js, spawn) ==
    IF spawn = Nothing THEN js ELSE js (+) SetToBag({spawn[1]})

\* Worker job has become job2.
Moved(js, job, job2) == (js (-) SetToBag({job})) (+) SetToBag({job2})

\* The workers spawned so far.
NumJobs == BagCardinality(jobs)

Init ==
    /\ chan_map = EmptyMap
    /\ jobs = EmptyBag
    /\ last = NoStep

\* The user enters /SETLANG in context ctx.
CmdSetlang(C, W) ==
    \E ctx \in C, word \in W :
        LET r == on_cmd_setlang(ctx, word, chan_map)
        IN  /\ chan_map' = r.map
            /\ jobs' = jobs
            /\ last' = Step("SETLANG", ctx, word, r.out, r.eat, Nothing)

\* The user, or a callback's command, enters /OFFLANG in context ctx.
CmdOfflang(C, W) ==
    \E ctx \in C, word \in W :
        LET r == on_cmd_offlang(ctx, word, chan_map)
        IN  /\ chan_map' = r.map
            /\ jobs' = jobs
            /\ last' = Step("OFFLANG", ctx, word, r.out, r.eat, Nothing)

\* The user enters /LSAY or /LME with a message in context ctx.
CmdLsay ==
    \E ctx \in SysCtxs, cmd \in Cmds, message \in Messages,
       stripped \in BOOLEAN :
        LET word_eol == <<<<"L", cmd, " ">> \o message, message>>
            r == on_cmd_lsay(ctx, word_eol, cmd, chan_map, stripped)
        IN  /\ r.spawn # Nothing => NumJobs < MaxJobs
            /\ chan_map' = chan_map
            /\ jobs' = Spawned(jobs, r.spawn)
            /\ last' = Step("LSAY", ctx, word_eol, r.out, r.eat, r.spawn)

\* The host reports a text event in context ctx.
RecvMessage ==
    \E ctx \in SysCtxs, event \in Events, word \in EventWords,
       stripped \in BOOLEAN :
        LET r == on_recv_message(ctx, word, event, chan_map, stripped)
        IN  /\ r.spawn # Nothing => NumJobs < MaxJobs
            /\ chan_map' = chan_map
            /\ jobs' = Spawned(jobs, r.spawn)
            /\ last' = Step("EVENT", ctx, word, r.out, r.eat, r.spawn)

\* A worker that turns translation off itself when it meets the limit.
WorkerRunOfflang(job, R) ==
    /\ job.status = "running"
    /\ \E rsps \in SeqsOfLen(R, Len(find_iter(job.strip_msg))) :
           LET g == google_translate_free(job.strip_msg, rsps)
               w == WorkerBody(job, rsps)
           IN  /\ jobs' = Moved(jobs, job, w)
               /\ last' = Step("WORKER", NoCtx, <<job, rsps>>,
                               [i \in 1..Len(g.calls) |-> HttpGet(g.calls[i])],
                               g.result, Nothing)
               /\ chan_map' = IF w.is_over_limit
                              THEN remove(chan_map, <<job.network, job.channel>>)
                              ELSE chan_map

\* A worker translates its message job, the server answering from R,
\* and hands its callback to main_thread.  The step's word is the job and
\* the server's answers, its output the requests made.
WorkerRun(job, R) ==
    /\ job.status = "running"
    /\ \E rsps \in SeqsOfLen(R, Len(find_iter(job.strip_msg))) :
           LET g == google_translate_free(job.strip_msg, rsps)
           IN  /\ jobs' = Moved(jobs, job, WorkerBody(job, rsps))
               /\ last' = Step("WORKER", NoCtx, <<job, rsps>>,
                               [i \in 1..Len(g.calls) |-> HttpGet(g.calls[i])],
                               g.result, Nothing)
    /\ chan_map' = chan_map

\* A callback that stays queued once it has run.
UiCallbackAgain(job) ==
    /\ job.status = "posted"
    /\ \E host \in HostAnswers :
           LET r == Callback(job, chan_map, host.found, host.fail_at)
           IN  /\ chan_map' = r.map
               /\ jobs' = Spawned(jobs, r.spawn)
               /\ last' = Step("CALLBACK", <<job.network, job.channel>>,
                               <<job>>, r.out, "", r.spawn)

\* A callback that delivers into the context current when it runs.
UiCallbackCurrent(job) ==
    /\ job.status = "posted"
    /\ \E host \in HostAnswers, cur \in Keys :
           LET r == Callback([job EXCEPT !.network = cur[1],
                                         !.channel = cur[2]],
                             chan_map, host.found, host.fail_at)
           IN  /\ chan_map' = r.map
               /\ jobs' = Spawned(Moved(jobs, job, DoneJob), r.spawn)
               /\ last' = Step("CALLBACK", cur, <<job>>, r.out, "", r.spawn)

\* A callback that drops the message of a context no longer active.
UiCallbackIfActive(job) ==
    /\ job.status = "posted"
    /\ \E host \in HostAnswers :
           LET r == Callback(job, chan_map, host.found, host.fail_at)
               active == chan_map[<<job.network, job.channel>>] # Nothing
           IN  /\ chan_map' = IF active THEN r.map ELSE chan_map
               /\ jobs' = Spawned(Moved(jobs, job, DoneJob),
                                  IF active THEN r.spawn ELSE Nothing)
               /\ last' = Step("CALLBACK", <<job.network, job.channel>>,
                               <<job>>, IF active THEN r.out ELSE <<>>, "",
                               IF active THEN r.spawn ELSE Nothing)

\* A callback whose /OFFLANG spares an entry made since its message was
\* dispatched.
UiCallbackOwnEntry(job) ==
    /\ job.status = "posted"
    /\ \E host \in HostAnswers :
           LET r   == Callback(job, chan_map, host.found, host.fail_at)
               own == chan_map[<<job.network, job.channel>>]
                          = IF job.kind = "cmd"
                            THEN <<job.source, job.target>>
                            ELSE <<job.target, job.source>>
           IN  /\ chan_map' = IF own THEN r.map ELSE chan_map
               /\ jobs' = Spawned(Moved(jobs, job, DoneJob), r.spawn)
               /\ last' = Step("CALLBACK", <<job.network, job.channel>>,
                               <<job>>, r.out, "", r.spawn)

\* The UI thread runs the callback a worker handed to main_thread.  The
\* step's word is the worker's job.
UiCallback(job) ==
    /\ job.status = "posted"
    /\ \E host \in HostAnswers :
           LET r == Callback(job, chan_map, host.found, host.fail_at)
           IN  /\ chan_map' = r.map
               /\ jobs' = Spawned(Moved(jobs, job, DoneJob), r.spawn)
               /\ last' = Step("CALLBACK", <<job.network, job.channel>>,
                               <<job>>, r.out, "", r.spawn)

Next ==
    \/ CmdSetlang(SysCtxs, SetlangWords)
    \/ CmdOfflang(SysCtxs, OfflangWords)
    \/ CmdLsay
    \/ RecvMessage
    \/ \E job \in BagToSet(jobs) : WorkerRun(job, SysResponses)
    \/ \E job \in BagToSet(jobs) : UiCallback(job)

Spec == Init /\ [][Next]_vars

(***************************************************************************)
(* The Context Registry alone: /SETLANG and /OFFLANG with every kind of    *)
(* argument list, in every kind of context.                                *)
(***************************************************************************)
NextRegistry ==
    \/ CmdSetlang(Ctxs, AllSetlangWords)
    \/ CmdOfflang(Ctxs, AllOfflangWords)

SpecRegistry == Init /\ [][NextRegistry]_vars

(***************************************************************************)
(* The pipeline alone: one worker, spawned by /LSAY in an active context   *)
(* with an arbitrary text, and every answer of the server.                 *)
(***************************************************************************)
InitPipe ==
    /\ chan_map = insert(EmptyMap, <<"net", "#a">>, <<"en", "es">>)
    /\ \E text \in TextsUpTo(MaxLen) \cup LongTexts :
           jobs = SetToBag({Job("cmd", "SAY", <<>>, <<>>, text, text,
                                "en", "es", "net", "#a")})
    /\ last = NoStep

NextPipe == \E job \in BagToSet(jobs) : WorkerRun(job, Responses)

SpecPipe == InitPipe /\ [][NextPipe]_vars

(***************************************************************************)
(* The handlers of /LSAY, /LME and the events alone: every command, event  *)
(* and kind of word, in every kind of context, the host stripping the      *)
(* message or failing to; the workers spawned are left waiting.            *)
(***************************************************************************)
AllCmds       == {"SAY", "ME"}
AllEvents     == {"Channel Message", "You Part"}
ModeChar      == <<"@">>
AllEventWords == EventWords
                 \cup {<<Nick, m, ModeChar>> : m \in Messages}
                 \cup {<<Nick, m, ModeChar, SENTINEL>> : m \in Messages}

\* The user enters /LSAY or /LME in any context.
CmdLsayAny ==
    \E ctx \in Ctxs, cmd \in AllCmds, message \in Messages,
       stripped \in BOOLEAN :
        LET word_eol == <<<<"L", cmd, " ">> \o message, message>>
            r == on_cmd_lsay(ctx, word_eol, cmd, chan_map, stripped)
        IN  /\ r.spawn # Nothing => NumJobs < MaxJobs
            /\ chan_map' = chan_map
            /\ jobs' = Spawned(jobs, r.spawn)
            /\ last' = Step("LSAY", ctx, word_eol, r.out, r.eat, r.spawn)

\* The host reports any hooked event in any context.
RecvMessageAny ==
    \E ctx \in Ctxs, event \in AllEvents, word \in AllEventWords,
       stripped \in BOOLEAN :
        LET r == on_recv_message(ctx, word, event, chan_map, stripped)
        IN  /\ r.spawn # Nothing => NumJobs < MaxJobs
            /\ chan_map' = chan_map
            /\ jobs' = Spawned(jobs, r.spawn)
            /\ last' = Step("EVENT", ctx, word, r.out, r.eat, r.spawn)

NextDispatch ==
    \/ CmdSetlang({<<"net", "#a">>}, SetlangWords)
    \/ CmdOfflang({<<"net", "#a">>}, OfflangWords)
    \/ CmdLsayAny
    \/ RecvMessageAny

SpecDispatch == Init /\ [][NextDispatch]_vars

(***************************************************************************)
(* A message in flight: one worker, spawned by /LSAY or by an event in an  *)
(* active context, while the user turns translation on and off.            *)
(***************************************************************************)
InitFlight ==
    /\ chan_map = insert(EmptyMap, <<"net", "#a">>, <<"en", "es">>)
    /\ \E m \in Messages :
           \E job \in {Job("cmd", "SAY", <<>>, <<>>, m, StripCodes(m),
                            "en", "es", "net", "#a"),
                        Job("event", "Channel Message", Nick, <<>>, m,
                            StripCodes(m), "es", "en", "net", "#a")} :
               jobs = SetToBag({job})
    /\ last = NoStep

NextFlight ==
    \/ CmdSetlang(Keys, SetlangWords)
    \/ CmdOfflang(Keys, OfflangWords)
    \/ \E job \in BagToSet(jobs) : WorkerRun(job, SysResponses)
    \/ \E job \in BagToSet(jobs) : UiCallback(job)

SpecFlight == InitFlight /\ [][NextFlight]_vars

(***************************************************************************)
(* The plugin under fair scheduling: a spawned thread runs, each of its    *)
(* requests returning or timing out, and the UI thread runs the callbacks  *)
(* queued by main_thread.  The user and the host need do nothing; the     *)
(* user turns translation on and off in one channel.                       *)
(***************************************************************************)
Workers   == \E job \in BagToSet(jobs) : WorkerRun(job, SysResponses)
Callbacks == \E job \in BagToSet(jobs) : UiCallback(job)

NextFair ==
    \/ CmdSetlang({<<"net", "#a">>}, {<<"SETLANG", "en", "es">>})
    \/ CmdOfflang({<<"net", "#a">>}, OfflangWords)
    \/ CmdLsay
    \/ RecvMessage
    \/ Workers
    \/ Callbacks

SpecFair == Init /\ [][NextFair]_vars /\ WF_vars(Workers) /\ WF_vars(Callbacks)

(***************************************************************************)
(* Properties.                                                             *)
(***************************************************************************)

\* The language an argument of /SETLANG names, "" when it names none.
CodeOf(arg) ==
    CASE arg \in {"en", "EN", "English"} -> "en"
      [] arg \in {"es", "Spanish"}       -> "es"
      [] OTHER                           -> ""

\* A /SETLANG that asks for two different supported languages.
ValidRequest(word) ==
    /\ Len(word) = 3
    /\ CodeOf(word[2]) # ""
    /\ CodeOf(word[3]) # ""
    /\ CodeOf(word[2]) # CodeOf(word[3])

\* C1: after /SETLANG X Y has activated the key of its context, a lookup
\* of that key answers exactly (X, Y); after /OFFLANG has deactivated it,
\* the lookup answers absent; whatever was activated or deactivated before.
C1_RoundTrip ==
    /\ (last.op = "SETLANG" /\ ValidRequest(last.word) /\ last.ctx \in Keys)
           => get_channel_langs(last.ctx, chan_map)
                  = <<CodeOf(last.word[2]), CodeOf(last.word[3])>>
    /\ (last.op = "OFFLANG" /\ Len(last.word) = 1 /\ last.ctx \in Keys)
           => get_channel_langs(last.ctx, chan_map) = Nothing

\* Witness of C1: a context has just been activated by language names
\* while the other context is active with another pair.
C1_Witness ==
    /\ last.op = "SETLANG"
    /\ last.word = <<"SETLANG", "Spanish", "en">>
    /\ last.ctx = <<"net", "#a">>
    /\ chan_map[<<"net", "#a">>] = <<"es", "en">>
    /\ chan_map[<<"net", "#b">>] = <<"en", "es">>

\* The one line an invalid /SETLANG prints.
RejectionPrinted(step) ==
    \/ step.out = <<HcPrint(step.ctx, <<IRC_MAGENTA, BAD_PARAMETERS>>)>>
    \/ step.out = <<HcPrint(step.ctx, <<"USAGE: ", SETLANG_HELP>>)>>

\* C2: a /SETLANG that is not valid leaves the registry as it was, prints
\* an error or usage line and starts no worker.
C2_InvalidSetlangRejected ==
    [][(last'.op = "SETLANG" /\ ~ValidRequest(last'.word))
          => /\ chan_map' = chan_map
             /\ jobs' = jobs
             /\ last'.spawn = Nothing
             /\ RejectionPrinted(last')
             /\ (Len(last'.word) # 3
                    <=> last'.out[1].arg[1] = "USAGE: ")]_vars

\* Witness of C2: two spellings of one language have just been rejected
\* in a context, while the registry holds an entry.
C2_Witness ==
    /\ last.op = "SETLANG"
    /\ last.word = <<"SETLANG", "es", "Spanish">>
    /\ last.ctx = <<"net", "#a">>
    /\ chan_map[<<"net", "#a">>] = <<"en", "es">>

\* The last field of a word.
LastField(word) == word[Len(word)]

\* C3: every event a callback emits ends with the sentinel; the handler
\* ignores every event that ends with the sentinel; so a callback spawns
\* no worker, and every worker is spawned by a command or by an event that
\* does not end with the sentinel.
C3_SelfFeedbackGuard ==
    /\ \A i \in 1..Len(last.out) :
           last.out[i].call = "emit_print"
               => LastField(last.out[i].arg[2]) = SENTINEL
    /\ (last.op = "EVENT" /\ LastField(last.word) = SENTINEL)
           => /\ last.ret = Eat.None
              /\ last.spawn = Nothing
              /\ last.out = <<>>
    /\ last.op = "CALLBACK" => last.spawn = Nothing
    /\ last.spawn # Nothing
           => \/ last.op = "LSAY"
              \/ last.op = "EVENT" /\ LastField(last.word) # SENTINEL
    /\ NumJobs <= MaxJobs

\* Witness of C3: a callback has just emitted the translated event into a
\* context where translation is still on.
C3_Witness ==
    /\ last.op = "CALLBACK"
    /\ last.word[1].kind = "event"
    /\ last.out[1].call = "emit_print"
    /\ chan_map[last.ctx] # Nothing

\* Whether the callback of the last step met no failure of the host.
HostObliged(step) ==
    /\ step.out # <<>>
    /\ step.out[Len(step.out)].call # "print_th"
    /\ step.out[1].call \in {"command", "emit_print"}

PipeDone == last.op = "WORKER"
PJob     == last.word[1]
PRsps    == last.word[2]
PText    == PJob.strip_msg
PUnits   == find_iter(PText)

\* The outcome of the i-th unit, and whether it is Failed, rate-limited.
Outcome(i)     == translate_single(PUnits[i], PRsps[i])
Failed(i)      == Outcome(i).tag = "Err"
RateLimited(i) == Failed(i) /\ Outcome(i).err.variant = "OverLimit"

\* The text and the flag of the aggregate the worker got.
AggText == IF last.ret.tag = "Ok" THEN last.ret.val ELSE last.ret.partial_trans
AggFlag == last.ret.tag = "Err" /\ last.ret.over_limit

\* The worker of the last step, as it waits for its callback.
Posted == CHOOSE j \in BagToSet(jobs) : j.status = "posted"

\* C5 as stated: a unit the server answers with HTTP 403 is classified
\* rate-limited; and when one of two units is answered with 403 and the
\* other is translated, the aggregate is the 403 unit's original text and
\* the other's translation, one error description and rate-limited true.
C5_Http403IsRateLimited ==
    PipeDone =>
        /\ \A i \in 1..Len(PUnits) : PRsps[i].status = 403 => RateLimited(i)
        /\ \A i \in 1..2 :
               (Len(PUnits) = 2 /\ PRsps[i].status = 403
                                /\ PRsps[3 - i] = RespOk)
                   => /\ last.ret.tag = "Err"
                      /\ last.ret.error_msg = <<OVER_LIMIT_MSG>>
                      /\ last.ret.over_limit
                      /\ AggText = IF i = 1
                                   THEN PUnits[1] \o TranslatedText(PUnits[2])
                                   ELSE TranslatedText(PUnits[1]) \o PUnits[2]

\* C6: the flag of the aggregate, and the is_over_limit the callback is
\* given, are true exactly when some unit was classified rate-limited.
C6_FlagIffRateLimited ==
    PipeDone =>
        /\ AggFlag <=> \E i \in 1..Len(PUnits) : RateLimited(i)
        /\ Posted.is_over_limit = AggFlag

\* Witness of C6: of two units one failed with a server error and the
\* other was rate-limited.
C6_Witness ==
    /\ PipeDone
    /\ Len(PUnits) = 2
    /\ PRsps = <<RespNotFound, RespForbidden>>
    /\ AggFlag

\* C7: the text of the aggregate is, unit by unit and in the order of the
\* units, the original text of a unit that failed and the translation of a
\* unit that succeeded.
C7_FailedKeepsOriginal ==
    PipeDone =>
        AggText = Flatten([i \in 1..Len(PUnits) |->
                              IF Failed(i) THEN PUnits[i]
                              ELSE TranslatedText(PUnits[i])])

\* Witness of C7: the first of two units failed, the second succeeded, and
\* the translation of the first differs from its text.
C7_Witness ==
    /\ PipeDone
    /\ PText = <<"a", ".", " ", "a">>
    /\ Failed(1) /\ ~Failed(2)
    /\ TranslatedText(PUnits[1]) # PUnits[1]
    /\ AggText = <<"a", ".", " ", "A">>

\* C8: when every unit is translated the result is Ok with the
\* translations in order, the callback is given no error message and a
\* false flag; an empty text gives an empty Ok and no request.
C8_AllTranslatedIsClean ==
    PipeDone =>
        /\ (\A i \in 1..Len(PUnits) : ~Failed(i))
               => /\ last.ret = Ok(Flatten([i \in 1..Len(PUnits) |->
                                               TranslatedText(PUnits[i])]))
                  /\ Posted.emsg = Nothing
                  /\ ~Posted.is_over_limit
        /\ PText = <<>> => last.ret = Ok(<<>>) /\ last.out = <<>>

\* Witness of C8: two units, both translated.
C8_Witness ==
    /\ PipeDone
    /\ Len(PUnits) = 2
    /\ PRsps = <<RespOk, RespOk>>
    /\ last.ret.tag = "Ok"

\* The elements of a set of error messages in ascending order.
RECURSIVE Ascending(_)
Ascending(S) ==
    IF S = {} THEN <<>>
    ELSE LET m == CHOOSE x \in S : \A y \in S : LexRank(x) <= LexRank(y)
         IN  <<m>> \o Ascending(S \ {m})

\* The error messages of the units that failed.
FailureSet == {Outcome(i).err.msg : i \in {k \in 1..Len(PUnits) : Failed(k)}}

\* C9: the error string of an aggregate is the distinct messages of the
\* failed units, each once, in ascending order, joined by a space.
C9_ErrorsSortedDeduped ==
    (PipeDone /\ last.ret.tag = "Err")
        => last.ret.error_msg = join(Ascending(FailureSet), " ")

\* Witness of C9: three units failed, the first and the last alike, the
\* middle one with a message that sorts before theirs.
C9_Witness ==
    /\ PipeDone
    /\ Len(PUnits) = 3
    /\ PRsps = <<RespNotFound, RespNoCall, RespNotFound>>
    /\ last.ret.error_msg = <<ERRORS[2], " ", "Not Found">>

\* C10 as stated: the texts of the requests a worker makes, one per unit
\* of the Segmenter and in order, concatenated, are its text.
C10_UnitsReproduceInput ==
    PipeDone =>
        Flatten([i \in 1..Len(last.out) |-> last.out[i].arg]) = PText

\* Whether text holds no sentence terminator followed by whitespace.
NoTerminal(text) ==
    \A i \in 1..(Len(text) - 1) : ~(IsPunct(text[i]) /\ IsSpace(text[i + 1]))

\* C11 as stated: a text that is not empty and holds no terminator
\* followed by whitespace is one unit, the whole text, and one request is
\* made for it.
C11_OneUnitWithoutTerminator ==
    (PipeDone /\ PText # <<>> /\ NoTerminal(PText))
        => /\ PUnits = <<PText>>
           /\ last.out = <<HttpGet(PText)>>

\* The call that hands the translated message of job to context ctx.
Delivery(job, ctx) ==
    IF job.kind = "cmd"
    THEN [call |-> "command", ctx |-> ctx, arg |-> <<job.label, " ">> \o job.msg]
    ELSE [call |-> "emit_print", ctx |-> ctx,
          arg |-> <<job.label,
                    IF job.mode_char # <<>>
                    THEN <<job.sender, job.msg, job.mode_char, <<"~">>>>
                    ELSE <<job.sender, job.msg, <<"~">>>>>>]

\* C12: whatever the registry holds, a running worker can complete and a
\* posted callback can run; and a callback that has run has delivered the
\* message into the worker's destination, unless the host did not find
\* that context or failed the delivering call itself.
C12_NoCancellation ==
    /\ \A job \in BagToSet(jobs) :
           /\ job.status = "running" => ENABLED WorkerRun(job, SysResponses)
           /\ job.status = "posted"  => ENABLED UiCallback(job)
    /\ last.op = "CALLBACK"
           => /\ last.out # <<>>
              /\ \/ /\ Len(last.out) = 1
                    /\ last.out[1].call = "print"
                    /\ last.out[1].arg[Len(last.out[1].arg)] = FAILED_CONTEXT
                 \/ /\ Len(last.out) = 1
                    /\ last.out[1].call = "print_th"
                 \/ /\ last.out[1].call \in {"command", "emit_print"}
                    /\ last.out[1] = Delivery(last.word[1], last.ctx)
                    /\ last.ctx = <<last.word[1].network,
                                    last.word[1].channel>>

\* Witness of C12: a callback has just delivered a translated event into
\* a context for which the registry holds no entry, the message not being
\* rate-limited.
C12_Witness ==
    /\ last.op = "CALLBACK"
    /\ last.word[1].kind = "event"
    /\ ~last.word[1].is_over_limit
    /\ last.out # <<>>
    /\ last.out[1].call = "emit_print"
    /\ last.out[1] = Delivery(last.word[1], last.ctx)
    /\ chan_map[last.ctx] = Nothing

\* C13: a step of a worker leaves the registry as it is, and what it
\* computes is a function of the values moved into its closure and of the
\* server's answers alone; the registry changes only in the steps of
\* /SETLANG, /OFFLANG and a callback, all on the UI thread.
C13_WorkersNeverTouchRegistry ==
    [][/\ last'.op = "WORKER"
           => /\ chan_map' = chan_map
              /\ last'.word[1] \in BagToSet(jobs)
              /\ last'.ret = GtfFinish(GtfLoop(find_iter(last'.word[1].strip_msg),
                                               last'.word[2], 1, GtfStart))
       /\ chan_map' # chan_map
           => last'.op \in {"SETLANG", "OFFLANG", "CALLBACK"}]_vars

\* Witness of C13: a worker has just found its message rate-limited, and
\* the registry still holds the entry of its destination.
C13_Witness ==
    /\ last.op = "WORKER"
    /\ last.ret.tag = "Err"
    /\ last.ret.over_limit
    /\ chan_map[<<last.word[1].network, last.word[1].channel>>] # Nothing

\* The values a handler moves into the closure of the worker it spawns.
SnapshotFields == {"kind", "label", "sender", "mode_char", "message",
                   "strip_msg", "source", "target", "network", "channel"}
Snapshot(job) == [f \in SnapshotFields |-> job[f]]

\* C14: the worker a handler spawns holds the message and sender of the
\* handler's word, the language pair the registry held for the handler's
\* context and that context's network and channel; no later step changes
\* these values while the worker or its callback is pending; the worker
\* requests the units of that message and the callback delivers into that
\* network and channel.
C14_SnapshotBeforeSpawn ==
    [][/\ last'.spawn # Nothing
           => LET j == last'.spawn[1]
              IN  /\ j \in BagToSet(jobs')
                  /\ last'.ctx = <<j.network, j.channel>>
                  /\ chan_map[last'.ctx] = IF j.kind = "cmd"
                                           THEN <<j.source, j.target>>
                                           ELSE <<j.target, j.source>>
                  /\ j.message = last'.word[2]
                  /\ j.strip_msg = StripCodes(last'.word[2])
                  /\ j.kind = "event" => j.sender = last'.word[1]
       /\ \A j \in BagToSet(jobs') :
              j.status # "done"
                  => \/ last'.spawn = Some(j)
                     \/ \E k \in BagToSet(jobs) : Snapshot(k) = Snapshot(j)
       /\ last'.op = "WORKER"
           => LET units == find_iter(last'.word[1].strip_msg)
              IN  last'.out = [i \in 1..Len(units) |-> HttpGet(units[i])]
       /\ last'.op = "CALLBACK"
           => /\ last'.word[1] \in BagToSet(jobs)
              /\ last'.ctx = <<last'.word[1].network, last'.word[1].channel>>
              /\ \A i \in 1..Len(last'.out) :
                     last'.out[i].call \in {"command", "emit_print"}
                         => last'.out[i].ctx = last'.ctx]_vars

\* Witness of C14: a callback has just delivered a message dispatched
\* under the pair (en, es) into its context, for which the registry by
\* then holds the pair (es, en).
C14_Witness ==
    /\ last.op = "CALLBACK"
    /\ last.word[1].kind = "cmd"
    /\ last.word[1].source = "en"
    /\ last.word[1].target = "es"
    /\ last.out # <<>>
    /\ last.out[1].call = "command"
    /\ chan_map[last.ctx] = <<"es", "en">>

\* C15: in a context activated with (source, target), the worker /LSAY
\* or /LME spawns translates from source to target, and the worker an
\* incoming event spawns translates from target to source.
C15_TranslationDirection ==
    last.spawn # Nothing
        => LET j    == last.spawn[1]
               pair == chan_map[last.ctx]
           IN  /\ pair # Nothing
               /\ last.op \in {"LSAY", "EVENT"}
               /\ last.op = "LSAY"  => <<j.source, j.target>> = pair
               /\ last.op = "EVENT" => <<j.target, j.source>> = pair

\* Witness of C15: an incoming event has just spawned a worker that
\* translates from es to en, in a context activated with (en, es).
C15_Witness ==
    /\ last.op = "EVENT"
    /\ last.spawn # Nothing
    /\ chan_map[last.ctx] = <<"en", "es">>
    /\ last.spawn[1].source = "es"
    /\ last.spawn[1].target = "en"

\* Whether the host cannot tell the network or the channel of ctx.
Unidentified(ctx) ==
    get_info(ctx, "network") = None \/ get_info(ctx, "channel") = None

\* C16 as stated: when the host cannot tell the network or the channel of
\* the current context, /LSAY, /LME and the handler of an event it does
\* not ignore print an error message and spawn no worker.
C16_ContextUnavailableReported ==
    (/\ last.op \in {"LSAY", "EVENT"}
     /\ Unidentified(last.ctx)
     /\ last.op = "EVENT" => ~(Len(last.word) < 2 \/ LastField(last.word) = SENTINEL))
        => /\ last.spawn = Nothing
           /\ last.out # <<>>
           /\ last.out[1].call = "print"

\* C17: /OFFLANG in a context that has a key removes the entry of that
\* key and no other; when the key has no entry the registry stays exactly
\* as it was and no failure is printed; and deactivating twice gives what
\* deactivating once gives.
C17_DeactivateAbsentIsNoOp ==
    [][(last'.op = "OFFLANG" /\ Len(last'.word) = 1 /\ last'.ctx \in Keys)
          => /\ chan_map' = [k \in Keys |-> IF k = last'.ctx THEN Nothing
                                            ELSE chan_map[k]]
             /\ chan_map[last'.ctx] = Nothing => chan_map' = chan_map
             /\ last'.out = <<HcPrint(last'.ctx,
                                      <<IRC_MAGENTA, TRANSLATION_OFF>>)>>
             /\ deactivate(last'.ctx, chan_map').map = chan_map'
             /\ deactivate(last'.ctx, chan_map').out = <<>>]_vars

\* Witness of C17: /OFFLANG has just run in a context that has no entry,
\* while the other context keeps its entry.
C17_Witness ==
    /\ last.op = "OFFLANG"
    /\ last.word = <<"OFFLANG">>
    /\ last.ctx = <<"net", "#a">>
    /\ chan_map[<<"net", "#a">>] = Nothing
    /\ chan_map[<<"net", "#b">>] = <<"en", "es">>

\* The trailing-space flag of a unit: whether it ends in whitespace.
TrailingSpaceFlag(unit) == unit # <<>> /\ IsSpace(unit[Len(unit)])

\* C18 as stated: the translation of a unit that succeeded is the text
\* the server returned, followed by one space exactly when the unit ends
\* in whitespace of any kind.
C18_TrailingSpaceRestored ==
    PipeDone =>
        \A i \in 1..Len(PUnits) :
            ~Failed(i)
                => Outcome(i).val
                       = IF TrailingSpaceFlag(PUnits[i])
                         THEN Append(ServerText(PUnits[i]), " ")
                         ELSE ServerText(PUnits[i])

\* A success status with a body that is not JSON, or holds no string at
\* [0][0][0].
Malformed(rsp) ==
    /\ rsp.quoted /\ rsp.called /\ rsp.status_text = "OK" /\ rsp.readable
    /\ rsp.body \in {"not_json", "json_no_text"}

\* What the i-th unit adds to the text of the aggregate, and where.
Contribution(i) == IF Failed(i) THEN PUnits[i] ELSE Outcome(i).val
Before(i)       == Len(Flatten([k \in 1..(i - 1) |-> Contribution(k)]))

\* C19: a unit answered with a malformed body is Failed with the
\* invalid-format error and not rate-limited; the aggregate is an error
\* that names it and holds the unit's original text at the unit's place;
\* and every unit of the message is requested all the same.
C19_MalformedResponse ==
    PipeDone =>
        \A i \in 1..Len(PUnits) :
            Malformed(PRsps[i])
                => /\ Outcome(i) = Err(StaticError(ERRORS[4]))
                   /\ last.ret.tag = "Err"
                   /\ \E n \in 1..Len(last.ret.error_msg) :
                          last.ret.error_msg[n] = ERRORS[4]
                   /\ SubSeq(last.ret.partial_trans, Before(i) + 1,
                             Before(i) + Len(PUnits[i])) = PUnits[i]
                   /\ Len(last.out) = Len(PUnits)
                   /\ (\A k \in 1..Len(PUnits) : PRsps[k].status # 403)
                          => ~last.ret.over_limit

\* Witness of C19: the first of two units was answered with a body that
\* is not JSON, and the second was translated.
C19_Witness ==
    /\ PipeDone
    /\ PText = <<"a", ".", " ", "a">>
    /\ PRsps = <<RespNotJson, RespOk>>
    /\ last.ret = TranslationError(<<"a", ".", " ", "A">>, <<ERRORS[4]>>, FALSE)

\* C20: the requests a worker makes are the units of its text, one
\* request for each and in their order, whichever of them fail.
C20_OneRequestPerUnitInOrder ==
    PipeDone =>
        /\ Len(last.out) = Len(PUnits)
        /\ \A i \in 1..Len(PUnits) :
               last.out[i] = [call |-> "get", ctx |-> NoCtx, arg |-> PUnits[i]]

\* Witness of C20: of three units the first was rate-limited and the
\* second met a transport failure, and all three were requested.
C20_Witness ==
    /\ PipeDone
    /\ Len(PUnits) = 3
    /\ PRsps = <<RespForbidden, RespNoCall, RespOk>>
    /\ Len(last.out) = 3
    /\ last.out[3].arg = PUnits[3]

\* The workers whose callback has run.
NumDone == CopiesIn(DoneJob, jobs)

\* C21: a callback runs only for a worker that has posted it, and ends
\* that worker, spawning none; a worker ends in no other way; and under
\* fair scheduling, once n workers have been spawned, n callbacks
\* eventually have run, whether their aggregates were clean or partial.
C21_ExactlyOneCallback ==
    /\ [][/\ last'.op = "CALLBACK"
              => /\ last'.word[1].status = "posted"
                 /\ last'.word[1] \in BagToSet(jobs)
                 /\ jobs' = (jobs (-) SetToBag({last'.word[1]}))
                                (+) SetToBag({DoneJob})
          /\ CopiesIn(DoneJob, jobs') # NumDone
              => /\ last'.op = "CALLBACK"
                 /\ CopiesIn(DoneJob, jobs') = NumDone + 1
          /\ last'.op = "WORKER"
              => /\ last'.word[1].status = "running"
                 /\ last'.word[1] \in BagToSet(jobs)
                 /\ BagCardinality(jobs') = NumJobs]_vars
    /\ \A n \in 1..(MaxJobs + 1) : (NumJobs >= n) ~> (NumDone >= n)

\* Witness of C21: the callback of a message with a partial aggregate has
\* just run, and its worker is done.
C21_Witness ==
    /\ last.op = "CALLBACK"
    /\ last.word[1].emsg # Nothing
    /\ NumDone = 1
    /\ NumJobs = 1

\* The steps of the callback of job, in their order: the delivery, the
\* original, the diagnostic of an aggregate with errors, and /OFFLANG when
\* that aggregate is rate-limited.
Steps(job) ==
    LET ctx == <<job.network, job.channel>>
    IN  <<Delivery(job, ctx),
          [call |-> "print", ctx |-> ctx, arg |-> <<"\\00311">> \o job.message]>>
        \o (IF job.emsg # Nothing
            THEN <<[call |-> "print", ctx |-> ctx, arg |-> job.emsg[1]]>>
            ELSE <<>>)
        \o (IF job.emsg # Nothing /\ job.is_over_limit
            THEN <<[call |-> "command", ctx |-> ctx, arg |-> <<"OFFLANG">>]>>
            ELSE <<>>)

\* A line printed on no context: the host did not find the destination,
\* or failed a call.
ErrorLine(c) == c.ctx = NoCtx /\ c.call \in {"print", "print_th"}

\* C22: the calls a callback makes are the steps of its job in their
\* order (delivery, original, then the diagnostic of an aggregate with
\* errors, then /OFFLANG if it is rate-limited, followed only by what the
\* /OFFLANG handler prints), all of them unless the host ends the chain
\* with an error line; the callback of a clean aggregate prints no
\* diagnostic, and only that of a rate-limited one issues /OFFLANG.
C22_CallbackOrder ==
    last.op = "CALLBACK"
        => LET job   == last.word[1]
               steps == Steps(job)
               out   == last.out
               IsOff(c) == c.call = "command" /\ c.arg = <<"OFFLANG">>
           IN  /\ \E k \in 0..Len(steps) :
                      /\ k <= Len(out)
                      /\ \A i \in 1..k : out[i] = steps[i]
                      /\ IF k < Len(steps)
                         THEN Len(out) = k + 1 /\ ErrorLine(out[k + 1])
                         ELSE IF IsOff(steps[k])
                         THEN \A i \in (k + 1)..Len(out) : out[i].call = "print"
                         ELSE Len(out) = k
               /\ job.emsg = Nothing
                      => /\ Len(out) <= 2
                         /\ \A i \in 1..Len(out) : ~IsOff(out[i])
               /\ ~job.is_over_limit => \A i \in 1..Len(out) : ~IsOff(out[i])

\* Witness of C22: the callback of a rate-limited aggregate has made its
\* four calls in order, /OFFLANG the last of them.
C22_Witness ==
    /\ last.op = "CALLBACK"
    /\ last.word[1].emsg # Nothing
    /\ last.word[1].is_over_limit
    /\ Len(last.out) >= 4
    /\ last.out[1] = Delivery(last.word[1], last.ctx)
    /\ last.out[3].arg = last.word[1].emsg[1]
    /\ last.out[4].arg = <<"OFFLANG">>

\* The registry has an entry for context ctx.
Active(ctx) == ctx \in Keys /\ chan_map[ctx] # Nothing

\* The last step was a handler of /LSAY, /LME or of an event.
Handled == last.op \in {"LSAY", "EVENT"}

\* The Eat of a handler that consumes what it was given.
Consumed == IF last.op = "LSAY" THEN "Eat::All" ELSE "Eat::Hexchat"

\* The event of the last step is one the handler lets pass: it has fewer
\* than two words, or the sentinel is its last.
Passed ==
    /\ last.op = "EVENT"
    /\ Len(last.word) < 2 \/ last.word[Len(last.word)] = <<"~">>

\* C23 as stated: a handler spawns a worker and consumes the event exactly
\* when the registry has an entry for the current context, and otherwise
\* lets the event pass.
C23_AsStated ==
    Handled => IF Active(last.ctx)
               THEN last.spawn # Nothing /\ last.ret = Consumed
               ELSE last.spawn = Nothing /\ last.ret = "Eat::None"

\* C23: a handler of /LSAY, /LME or of an event leaves the registry as it
\* is.  Where the registry has no entry for the context, and for an event
\* it lets pass, it spawns nothing, prints nothing and returns Eat::None.
\* Otherwise it consumes the event (Eat::All for a command, Eat::Hexchat
\* for an event) and either spawns exactly one worker, for this context
\* and its pair (a command's from its first language to its second, an
\* event's the other way), or, the host failing to strip the message,
\* spawns none and prints the basic failure.
C23_SpawnWhenActive ==
    [][Handled' =>
          /\ chan_map' = chan_map
          /\ IF ~Active(last.ctx)' \/ Passed'
             THEN /\ last'.spawn = Nothing
                  /\ last'.ret = "Eat::None"
                  /\ last'.out = <<>>
                  /\ jobs' = jobs
             ELSE /\ last'.ret = Consumed'
                  /\ \/ /\ last'.spawn # Nothing
                        /\ last'.spawn[1].status = "running"
                        /\ <<last'.spawn[1].network, last'.spawn[1].channel>> = last'.ctx
                        /\ chan_map[last'.ctx]
                               = IF last'.op = "LSAY"
                                 THEN <<last'.spawn[1].source, last'.spawn[1].target>>
                                 ELSE <<last'.spawn[1].target, last'.spawn[1].source>>
                        /\ last'.out = <<>>
                        /\ jobs' = jobs (+) SetToBag({last'.spawn[1]})
                     \/ /\ last'.spawn = Nothing
                        /\ Len(last'.out) = 1
                        /\ last'.out[1].call = "print"
                        /\ last'.out[1].ctx = last'.ctx
                        /\ jobs' = jobs]_vars

\* Witness of C23: an event in an active context has spawned its worker
\* and has been consumed.
C23_Witness ==
    /\ last.op = "EVENT"
    /\ Active(last.ctx)
    /\ last.spawn # Nothing
    /\ last.ret = "Eat::Hexchat"
    /\ NumJobs = 1

\* The pair the registry held for the destination of job when job was
\* dispatched.
Dispatched(job) ==
    IF job.kind = "cmd" THEN <<job.source, job.target>>
    ELSE <<job.target, job.source>>

\* The last step, a callback, issued /OFFLANG in its destination.
OffIssued ==
    /\ last.op = "CALLBACK"
    /\ \E i \in 1..Len(last.out) :
           /\ last.out[i].call = "command"
           /\ last.out[i].ctx = last.ctx
           /\ last.out[i].arg = <<"OFFLANG">>

\* C24: a callback that issues /OFFLANG leaves the registry without an
\* entry for its destination, whatever pair it held when the callback ran,
\* the pair of its job's dispatch or one set since, and leaves the other
\* keys as they were; a callback that issues none leaves the registry.
C24_RemovesCurrentEntry ==
    [][last'.op = "CALLBACK"
          => IF OffIssued'
             THEN /\ chan_map'[last'.ctx] = Nothing
                  /\ \A k \in Keys \ {last'.ctx} : chan_map'[k] = chan_map[k]
             ELSE chan_map' = chan_map]_vars

\* Witness of C24: the callback of a rate-limited message is queued while
\* the registry holds for its destination a pair set since the message was
\* dispatched.
C24_Witness ==
    \E job \in BagToSet(jobs) :
        /\ job.status = "posted"
        /\ job.is_over_limit
        /\ chan_map[<<job.network, job.channel>>] # Nothing
        /\ chan_map[<<job.network, job.channel>>] # Dispatched(job)

\* The last step, a callback, ended with an error line: its destination
\* was not found, or one of its calls failed.
Aborted ==
    /\ last.op = "CALLBACK"
    /\ last.out # <<>>
    /\ ErrorLine(last.out[Len(last.out)])

\* C25: a callback that ends with an error line has made, before that
\* line, only the steps that come before the failing one, in their order,
\* none of them /OFFLANG, and has left the registry as it was; where the
\* destination was not found the line "Failed to get context." is all it
\* printed.  A callback that ends with no error line has made all the
\* steps of its job.
C25_ChainAborts ==
    [][last'.op = "CALLBACK"
          => LET job   == last'.word[1]
                 steps == Steps(job)
                 out   == last'.out
                 n     == Len(out)
             IN  IF Aborted'
                 THEN /\ chan_map' = chan_map
                      /\ n - 1 < Len(steps)
                      /\ \A i \in 1..(n - 1) :
                             /\ out[i] = steps[i]
                             /\ out[i].arg # <<"OFFLANG">>
                      /\ out[n].call = "print"
                             => /\ n = 1
                                /\ out[n].arg[Len(out[n].arg)] = "Failed to get context."
                 ELSE /\ n >= Len(steps)
                      /\ \A i \in 1..Len(steps) : out[i] = steps[i]]_vars

\* Witness of C25: the callback of a rate-limited message has delivered
\* it and printed the original, the host has failed the print of the
\* diagnostic, and the registry still holds the entry of the destination.
C25_Witness ==
    /\ Aborted
    /\ last.word[1].is_over_limit
    /\ Len(last.out) = 3
    /\ last.out[3].call = "print_th"
    /\ chan_map[last.ctx] # Nothing

\* The last step was /SETLANG or /OFFLANG.
Registered == last.op \in {"SETLANG", "OFFLANG"}

\* C26: /SETLANG and /OFFLANG, and so activate and deactivate, leave the
\* entry of every key other than that of the current context as it was;
\* the entry of the current key is afterwards what it was, or the one pair
\* /SETLANG was given (whatever pair it held before), or none after
\* /OFFLANG; and in a context whose network or channel is unknown the
\* whole registry is left as it was, a failure being printed by activate
\* and deactivate when they were called.
C26_RegistryFrame ==
    [][Registered' =>
          LET K     == last'.ctx
              word  == last'.word
              valid == last'.op = "SETLANG" /\ ValidRequest(word)
              off   == last'.op = "OFFLANG" /\ Len(word) = 1
          IN  /\ \A k \in Keys \ {K} : chan_map'[k] = chan_map[k]
              /\ K \in Keys
                     => chan_map'[K] = IF valid
                                       THEN <<CodeOf(word[2]), CodeOf(word[3])>>
                                       ELSE IF off THEN Nothing
                                       ELSE chan_map[K]
              /\ K \notin Keys
                     => /\ chan_map' = chan_map
                        /\ valid \/ off
                               => /\ last'.out[1].call = "print"
                                  /\ last'.out[1].arg[2]
                                         = IF valid
                                           THEN "Failed to get channel information during activation."
                                           ELSE "Failed to get channel information during deactivation."]_vars

\* Witness of C26: /SETLANG has set the pair of one channel while another
\* channel holds a different pair.
C26_Witness ==
    /\ last.op = "SETLANG"
    /\ ValidRequest(last.word)
    /\ last.ctx \in Keys
    /\ chan_map[last.ctx] = <<CodeOf(last.word[2]), CodeOf(last.word[3])>>
    /\ \E k \in Keys \ {last.ctx} :
           chan_map[k] # Nothing /\ chan_map[k] # chan_map[last.ctx]

====
